---- MODULE Spec2Model ----
(***************************************************************************)
(* Model of the pod mutation of k8s-mca (pkg/inject): injectProxy and its  *)
(* helpers addVolumeMount, addEnvVars and addRequiredVolume, applied to    *)
(* bounded Pod Documents.                                                   *)
(***************************************************************************)
EXTENDS Integers, Sequences, FiniteSets, TLC

\* ------------------------------------------------------------------ bounds
MaxInit == 3
MaxContainers == 2
MaxVolumes == 2
MaxMounts == 2
MaxEnv == 2
MaxCalls == 2

\* The values of one header of a request.
MaxValues == 2

SeqsUpTo(S, n) == UNION {[1..k -> S] : k \in 0..n}

MaxOf(S) == CHOOSE x \in S : \A y \in S : y <= x

MinOf(S) == CHOOSE x \in S : \A y \in S : x <= y

\* --------------------------------------------------- program configuration
ServiceAccountPath == "/var/run/secrets/kubernetes.io/serviceaccount"

MCAServiceAccountPath == "/var/run/secrets/kubernetes.io/mca-serviceaccount"

\* conf.ProxyImage: "mca:latest" in development builds, the value of the
\* environment variable MCA_PROXY_IMAGE (possibly empty) in release builds.
ProxyImages == {"mca:latest", ""}

\* The map literal of addEnvVars.
envVars == [n \in {"KUBERNETES_SERVICE_HOST", "KUBERNETES_SERVICE_PORT"} |->
              IF n = "KUBERNETES_SERVICE_HOST" THEN "127.0.0.1" ELSE "6443"]

\* Go iterates a map in an unspecified order: every permutation of its keys
\* is a possible iteration order of `for envName, envValue := range envVars`.
EnvOrders == {o \in [1..Cardinality(DOMAIN envVars) -> DOMAIN envVars] :
                 \A i, j \in DOMAIN o : i # j => o[i] # o[j]}

\* ------------------------------------------------------------- data model
\* *corev1.SecurityContext: a nil pointer, or the fields the template sets
\* (runAsNonRoot, runAsUser) and one it does not (privileged).
NilSecurityContext ==
  [isNil |-> TRUE, runAsNonRoot |-> FALSE, runAsUser |-> 0, privileged |-> FALSE]

\* The zero value of corev1.Container (`var proxyContainer corev1.Container`).
ZeroContainer ==
  [name |-> "", image |-> "", args |-> <<>>, env |-> <<>>, volumeMounts |-> <<>>,
   securityContext |-> NilSecurityContext, restartPolicy |-> "", imagePullPolicy |-> ""]

\* The fields proxyContainerYAML sets.
proxyContainerYAML ==
  [name |-> "mca-proxy",
   restartPolicy |-> "Always",
   imagePullPolicy |-> "Always",
   securityContext |-> [runAsNonRoot |-> TRUE, runAsUser |-> 999],
   args |-> <<"--proxy">>,
   volumeMounts |-> <<[name |-> "kube-api-access-mca-sa",
                       mountPath |-> MCAServiceAccountPath,
                       readOnly |-> FALSE]>>]

\* yaml.Unmarshal(doc, &container): the fields the document names are
\* overwritten (a slice is replaced, a struct behind a non-nil pointer is
\* decoded into), every other field of the target keeps its value.
yamlUnmarshal(doc, container) ==
  [container EXCEPT
     !.name = doc.name,
     !.restartPolicy = doc.restartPolicy,
     !.imagePullPolicy = doc.imagePullPolicy,
     !.securityContext = [@ EXCEPT !.isNil = FALSE,
                                   !.runAsNonRoot = doc.securityContext.runAsNonRoot,
                                   !.runAsUser = doc.securityContext.runAsUser],
     !.args = doc.args,
     !.volumeMounts = doc.volumeMounts]

\* ------------------------------------------------------------ the mutation
\* injectProxy, lines 46-54: the last init container named mca-proxy, or the
\* zero value when there is none.
scanProxyContainer(initContainers) ==
  LET idx == {i \in 1..Len(initContainers) : initContainers[i].name = "mca-proxy"}
  IN  IF idx = {} THEN ZeroContainer ELSE initContainers[MaxOf(idx)]

filterInitContainers_keepAll(initContainers) == initContainers

filterInitContainers_reversed(initContainers) ==
  LET kept == SelectSeq(initContainers, LAMBDA c : c.name # "mca-proxy")
  IN  [i \in 1..Len(kept) |-> kept[Len(kept) + 1 - i]]

\* injectProxy, lines 47-54: the init containers not named mca-proxy, in order.
filterInitContainers(initContainers) ==
  SelectSeq(initContainers, LAMBDA c : c.name # "mca-proxy")

\* injectProxy, lines 56-61: an empty image selects the template.
defaultProxy(proxyContainer, image) ==
  IF proxyContainer.image = ""
  THEN [yamlUnmarshal(proxyContainerYAML, proxyContainer) EXCEPT !.image = image]
  ELSE proxyContainer

addVolumeMount_byName(container) ==
  LET idx == {i \in 1..Len(container.volumeMounts) :
                container.volumeMounts[i].name = "kube-api-access-mca-sa"}
  IN  IF idx = {} THEN [found |-> FALSE, container |-> container]
      ELSE [found |-> TRUE,
            container |-> [container EXCEPT
               !.volumeMounts[MinOf(idx)].mountPath = ServiceAccountPath]]

addVolumeMount_appends(container) ==
  LET idx == {i \in 1..Len(container.volumeMounts) :
                container.volumeMounts[i].mountPath = ServiceAccountPath}
      mount == [name |-> "kube-api-access-mca-sa", mountPath |-> ServiceAccountPath,
                readOnly |-> TRUE]
  IN  [found |-> TRUE,
       container |-> [container EXCEPT !.volumeMounts =
          IF idx = {} THEN Append(@, mount) ELSE [@ EXCEPT ![MinOf(idx)] = mount]]]

\* A variant that makes the mount it renames read-only as well.
addVolumeMount_readOnly(container) ==
  LET idx == {i \in 1..Len(container.volumeMounts) :
                container.volumeMounts[i].mountPath = ServiceAccountPath}
  IN  IF idx = {} THEN [found |-> FALSE, container |-> container]
      ELSE [found |-> TRUE,
            container |-> [container EXCEPT
               !.volumeMounts[MinOf(idx)].name = "kube-api-access-mca-sa",
               !.volumeMounts[MinOf(idx)].readOnly = TRUE]]

\* addVolumeMount: the first mount at the service-account path is renamed;
\* `found` is the returned bool.
addVolumeMount(container) ==
  LET idx == {i \in 1..Len(container.volumeMounts) :
                container.volumeMounts[i].mountPath = ServiceAccountPath}
  IN  IF idx = {} THEN [found |-> FALSE, container |-> container]
      ELSE [found |-> TRUE,
            container |-> [container EXCEPT
               !.volumeMounts[MinOf(idx)].name = "kube-api-access-mca-sa"]]

upsertEnv_append(env, envName, envValue) ==
  Append(env, [name |-> envName, value |-> envValue])

\* addEnvVars, lines 102-116: one iteration of the loop over the map.
upsertEnv(env, envName, envValue) ==
  LET idx == {i \in 1..Len(env) : env[i].name = envName}
  IN  IF idx # {} THEN [env EXCEPT ![MinOf(idx)].value = envValue]
      ELSE Append(env, [name |-> envName, value |-> envValue])

RECURSIVE rangeEnvVars(_, _, _)
\* addEnvVars, line 101: the loop, over the map's keys in iteration order.
rangeEnvVars(env, order, k) ==
  IF k > Len(order) THEN env
  ELSE rangeEnvVars(upsertEnv(env, order[k], envVars[order[k]]), order, k + 1)

addEnvVars(container, order) ==
  [container EXCEPT !.env = rangeEnvVars(container.env, order, 1)]

\* The body of both loops of injectProxy (lines 66-69 and 73-76).
redirect(container, order) ==
  LET r == addVolumeMount(container)
  IN  IF r.found THEN addEnvVars(r.container, order) ELSE r.container

\* injectProxy, lines 65-70: for i := range filteredInitContainers, the loop
\* body acts on pod.Spec.Containers[i]. Called only when n <= Len(containers).
initContainerLoop(containers, n, ords) ==
  [i \in 1..Len(containers) |->
     IF i <= n THEN redirect(containers[i], ords[i]) ELSE containers[i]]

\* injectProxy, lines 72-77.
containerLoop(containers, ords) ==
  [i \in 1..Len(containers) |-> redirect(containers[i], ords[i])]

addRequiredVolume_always(pod) ==
  [pod EXCEPT !.spec.volumes =
     Append(@, [name |-> "kube-api-access-mca-sa", source |-> "emptyDir"])]

\* A variant that never adds the volume.
addRequiredVolume_never(pod) == pod

\* A variant that drops the volumes of that name and adds the emptyDir one anew.
addRequiredVolume_replace(pod) ==
  [pod EXCEPT !.spec.volumes =
     SelectSeq(@, LAMBDA vol : vol.name # "kube-api-access-mca-sa")
       \o <<[name |-> "kube-api-access-mca-sa", source |-> "emptyDir"]>>]

addRequiredVolume(pod) ==
  IF \E i \in 1..Len(pod.spec.volumes) :
       pod.spec.volumes[i].name = "kube-api-access-mca-sa"
  THEN pod
  ELSE [pod EXCEPT !.spec.volumes =
          Append(@, [name |-> "kube-api-access-mca-sa", source |-> "emptyDir"])]

\* injectProxy(pod) under conf.ProxyImage = image, with the map iteration
\* orders of the addEnvVars calls of the two loops. fault is "none" when the
\* function returns (its error is nil on every path that returns: the
\* template always parses), and the runtime panic otherwise. caller is the
\* caller's own Pod value after the call: pod is passed by value, but its
\* slices share their backing arrays with the caller's, so what the loops
\* write through &pod.Spec.Containers[i] is written to the caller's
\* containers too, while the new InitContainers and Volumes slices are not.
\* The first loop panics at i = Len(containers), after its earlier iterations.
injectProxy(pod, image, ordsInit, ordsCont) ==
  LET proxyContainer == defaultProxy(scanProxyContainer(pod.spec.initContainers), image)
      filteredInitContainers == filterInitContainers(pod.spec.initContainers)
      n == Len(filteredInitContainers)
      cs == pod.spec.containers
  IN  IF n > Len(cs)
      THEN [fault |-> "index out of range",
            pod |-> pod,
            caller |-> [pod EXCEPT !.spec.containers =
                          initContainerLoop(cs, Len(cs), ordsInit)]]
      ELSE LET containers == containerLoop(initContainerLoop(cs, n, ordsInit), ordsCont)
           IN  [fault |-> "none",
                pod |-> addRequiredVolume(
                  [pod EXCEPT
                     !.spec.initContainers = <<proxyContainer>> \o filteredInitContainers,
                     !.spec.containers = containers]),
                caller |-> [pod EXCEPT !.spec.containers = containers]]

\* ------------------------------------------- the always-redirect variant
\* The fields the proxyContainerYAML of lines 146-158 sets; the value of the
\* NAMESPACE entry stands for its valueFrom.
proxyContainerYAMLAlways ==
  [name |-> "mca-proxy",
   restartPolicy |-> "Always",
   imagePullPolicy |-> "Always",
   securityContext |-> [runAsNonRoot |-> TRUE, runAsUser |-> 999],
   args |-> <<"--proxy">>,
   env |-> <<[name |-> "NAMESPACE", value |-> "fieldRef:metadata.namespace"]>>,
   volumeMounts |-> <<[name |-> "kube-api-access-mca-sa",
                       mountPath |-> MCAServiceAccountPath,
                       readOnly |-> FALSE]>>]

\* yaml.Unmarshal of that document, which names env as well.
yamlUnmarshalAlways(doc, container) ==
  [yamlUnmarshal(doc, container) EXCEPT !.env = doc.env]

\* injectProxy, lines 202-207.
defaultProxyAlways(proxyContainer, image) ==
  IF proxyContainer.image = ""
  THEN [yamlUnmarshalAlways(proxyContainerYAMLAlways, proxyContainer) EXCEPT !.image = image]
  ELSE proxyContainer

\* addVolumeMount, lines 228-242: the first mount at the service-account path
\* is replaced by the redirect mount, or that mount is appended.
addVolumeMountAlways(container) ==
  LET idx == {i \in 1..Len(container.volumeMounts) :
                container.volumeMounts[i].mountPath = ServiceAccountPath}
      mount == [name |-> "kube-api-access-mca-sa", mountPath |-> ServiceAccountPath,
                readOnly |-> TRUE]
  IN  [container EXCEPT !.volumeMounts =
         IF idx = {} THEN Append(@, mount) ELSE [@ EXCEPT ![MinOf(idx)] = mount]]

\* What a copy of the container made before addVolumeMount shows of it: the
\* copy shares the array of the mounts, so it shows the replacement of an
\* element, and has its own slice header, so it does not show an append.
aliasedVolumeMounts(container) ==
  LET idx == {i \in 1..Len(container.volumeMounts) :
                container.volumeMounts[i].mountPath = ServiceAccountPath}
      mount == [name |-> "kube-api-access-mca-sa", mountPath |-> ServiceAccountPath,
                readOnly |-> TRUE]
  IN  IF idx = {} THEN container.volumeMounts
      ELSE [container.volumeMounts EXCEPT ![MinOf(idx)] = mount]

RECURSIVE aliasedEnv(_, _, _, _, _)
\* What such a copy shows of addEnvVars (lines 250-266): the update of an
\* entry, as long as the loop still writes to the shared array, and no
\* append. An append moves the loop to an array of its own unless the slice
\* has capacity to spare.
aliasedEnv(env, order, k, detached, spare) ==
  IF k > Len(order) THEN env
  ELSE LET idx == {i \in 1..Len(env) : env[i].name = order[k]}
       IN  IF idx # {}
           THEN aliasedEnv(IF detached THEN env
                           ELSE [env EXCEPT ![MinOf(idx)].value = envVars[order[k]]],
                           order, k + 1, detached, spare)
           ELSE aliasedEnv(env, order, k + 1, detached \/ ~spare, spare)

\* injectProxy, lines 209-215: pod.Spec.InitContainers is assembled from
\* copies of the filtered containers, and the loop then acts on
\* filteredInitContainers[i].
aliased(container, order, spare) ==
  [container EXCEPT !.volumeMounts = aliasedVolumeMounts(container),
                    !.env = aliasedEnv(@, order, 1, FALSE, spare)]

\* A variant whose first loop is over pod.Spec.InitContainers, the sidecar
\* included.
injectProxyAlways_redirectsAll(pod, image, ordsInit, ordsCont, spare) ==
  LET proxyContainer ==
        defaultProxyAlways(scanProxyContainer(pod.spec.initContainers), image)
      filteredInitContainers == filterInitContainers(pod.spec.initContainers)
      containers ==
        [i \in 1..Len(pod.spec.containers) |->
           addEnvVars(addVolumeMountAlways(pod.spec.containers[i]), ordsCont[i])]
      all == <<proxyContainer>> \o filteredInitContainers
  IN  [fault |-> "none",
       pod |-> addRequiredVolume(
         [pod EXCEPT
            !.spec.initContainers =
               [i \in 1..Len(all) |->
                  addEnvVars(addVolumeMountAlways(all[i]), <<"KUBERNETES_SERVICE_HOST",
                                                            "KUBERNETES_SERVICE_PORT">>)],
            !.spec.containers = containers]),
       caller |-> [pod EXCEPT !.spec.containers = containers]]

\* injectProxy, lines 191-226, with the map iteration orders of its
\* addEnvVars calls and, for each filtered init container, whether its env
\* slice has capacity to spare. It returns on every path. caller is the
\* caller's own Pod value after the call: its containers are written through
\* &pod.Spec.Containers[i], its init containers share their arrays with the
\* filtered ones.
injectProxyAlways(pod, image, ordsInit, ordsCont, spare) ==
  LET ics == pod.spec.initContainers
      proxyContainer == defaultProxyAlways(scanProxyContainer(ics), image)
      filteredInitContainers == filterInitContainers(ics)
      shown == [i \in 1..Len(filteredInitContainers) |->
                  aliased(filteredInitContainers[i], ordsInit[i], spare[i])]
      rank(j) == Cardinality({i \in 1..j : ics[i].name # "mca-proxy"})
      containers ==
        [i \in 1..Len(pod.spec.containers) |->
           addEnvVars(addVolumeMountAlways(pod.spec.containers[i]), ordsCont[i])]
  IN  [fault |-> "none",
       pod |-> addRequiredVolume(
         [pod EXCEPT
            !.spec.initContainers = <<proxyContainer>> \o shown,
            !.spec.containers = containers]),
       caller |-> [pod EXCEPT
            !.spec.initContainers =
               [j \in 1..Len(ics) |->
                  IF ics[j].name = "mca-proxy" THEN ics[j] ELSE shown[rank(j)]],
            !.spec.containers = containers]]

\* ---------------------------------------------------------------- front ends
\* var pod corev1.Pod: the zero value a front end deserializes into.
ZeroPod ==
  [metadata |-> [name |-> ""],
   spec |-> [initContainers |-> <<>>, containers |-> <<>>, volumes |-> <<>>,
             automountServiceAccountToken |-> "nil"],
   status |-> [phase |-> ""]]

\* A byte slice, by what a parser makes of it: the encoding of a pod, bytes
\* that no parser accepts, or the nil slice a failing function returns.
Encoded(p) == [kind |-> "pod", pod |-> p]

Garbage == [kind |-> "garbage", pod |-> ZeroPod]

\* The encoding of an object of another kind, a ConfigMap: JSON that a Pod
\* deserializes from, its unknown fields skipped, to its metadata and no more.
EncodedConfigMap ==
  [kind |-> "configmap", pod |-> [ZeroPod EXCEPT !.metadata.name = "test-configmap"]]

NilBytes == [kind |-> "nil", pod |-> ZeroPod]

\* yaml.Unmarshal(podYAML, &pod) and json.Unmarshal(req.Object.Raw, &pod).
unmarshalPod(bytes) ==
  IF bytes.kind \in {"pod", "configmap"}
  THEN [err |-> "nil", pod |-> bytes.pod]
  ELSE [err |-> "syntax error", pod |-> ZeroPod]

\* yaml.Marshal(&mutatedPod): a Pod value always serializes.
marshalPod(p) == Encoded(p)

\* A variant that hands back its input next to the error.
ViaCLI_echo(podYAML, image, ordsInit, ordsCont) ==
  LET u == unmarshalPod(podYAML)
  IN  IF u.err # "nil"
      THEN [fault |-> "none", output |-> podYAML, err |-> "failed to unmarshal pod"]
      ELSE LET r == injectProxy(u.pod, image, ordsInit, ordsCont)
           IN  IF r.fault # "none"
               THEN [fault |-> r.fault, output |-> NilBytes, err |-> "nil"]
               ELSE [fault |-> "none", output |-> marshalPod(r.pod), err |-> "nil"]

\* ViaCLI(podYAML): what it returns, or the panic that unwinds through it.
\* injectProxy's error is nil whenever it returns and yaml.Marshal does not
\* fail on a Pod, so the returns of lines 30 and 35 are never taken.
ViaCLI(podYAML, image, ordsInit, ordsCont) ==
  LET u == unmarshalPod(podYAML)
  IN  IF u.err # "nil"
      THEN [fault |-> "none", output |-> NilBytes, err |-> "failed to unmarshal pod"]
      ELSE LET r == injectProxy(u.pod, image, ordsInit, ordsCont)
           IN  IF r.fault # "none"
               THEN [fault |-> r.fault, output |-> NilBytes, err |-> "nil"]
               ELSE [fault |-> "none", output |-> marshalPod(r.pod), err |-> "nil"]

\* An AdmissionResponse: *PatchType is nil or JSONPatch, Patch a sequence of
\* operations, message the Result's.
NoResponse ==
  [uid |-> "", allowed |-> FALSE, patchType |-> "nil", patch |-> <<>>, message |-> ""]

\* A variant that leaves the UID out.
mutateErr_noUID(uid, message) == [NoResponse EXCEPT !.message = message]

\* Server.mutateErr(uid, err, message).
mutateErr(uid, message) ==
  [uid |-> uid, allowed |-> FALSE, patchType |-> "nil", patch |-> <<>>,
   message |-> message]

\* A variant that adds the subtree instead of replacing it.
generateJSONPatch_add(mutatedPod) ==
  <<[op |-> "add", path |-> "/spec", value |-> mutatedPod.spec]>>

\* Server.generateJSONPatch(mutatedPod).
generateJSONPatch(mutatedPod) ==
  <<[op |-> "replace", path |-> "/spec", value |-> mutatedPod.spec]>>

\* Server.mutate(admissionReview): the response it returns, or the panic that
\* unwinds through it. Request is a pointer that mutate reads without a test.
\* ViaWebhook's error is nil whenever it returns and json.Marshal does not
\* fail on the patch, so the denials of lines 106 and 111 are never taken.
mutate(admissionReview, image, ordsInit, ordsCont) ==
  LET req == admissionReview.request
      u == unmarshalPod(req.raw)
  IN  IF ~req.present
      THEN [fault |-> "nil pointer dereference", response |-> NoResponse]
      ELSE IF u.err # "nil"
      THEN [fault |-> "none", response |-> mutateErr(req.uid, "Failed to unmarshal pod")]
      ELSE LET r == injectProxy(u.pod, image, ordsInit, ordsCont)
           IN  IF r.fault # "none"
               THEN [fault |-> r.fault, response |-> NoResponse]
               ELSE [fault |-> "none",
                     response |-> [uid |-> req.uid, allowed |-> TRUE,
                                   patchType |-> "JSONPatch",
                                   patch |-> generateJSONPatch(r.pod),
                                   message |-> ""]]

\* ------------------------------------------------------------------ inputs
Container(name, image, args, mounts, env) ==
  [name |-> name, image |-> image, args |-> args, env |-> env, volumeMounts |-> mounts,
   securityContext |-> NilSecurityContext, restartPolicy |-> "", imagePullPolicy |-> ""]

dataMount == [name |-> "data", mountPath |-> "/data", readOnly |-> FALSE]

kubeApiAccess ==
  [name |-> "kube-api-access", mountPath |-> ServiceAccountPath, readOnly |-> TRUE]

kubeApiAccess2 ==
  [name |-> "kube-api-access-2", mountPath |-> ServiceAccountPath, readOnly |-> FALSE]

VolumeMountSet == {dataMount, kubeApiAccess, kubeApiAccess2}

EnvVarSet ==
  {[name |-> "KUBERNETES_SERVICE_HOST", value |-> "old-value"],
   [name |-> "KUBERNETES_SERVICE_PORT", value |-> "443"],
   [name |-> "APP_ENV", value |-> "production"]}

\* Init containers named mca-proxy, with arguments of their own: without and
\* with an image.
ProxyContainerSet ==
  {Container("mca-proxy", image, <<"--custom-arg">>, <<>>, <<>>) :
     image \in {"", "custom-proxy:v2"}}

OtherInitContainerSet ==
  {Container("init-db", "postgres:init", <<>>, <<kubeApiAccess>>, <<>>),
   Container("init-cache", "redis:init", <<>>, <<>>, <<>>)}

InitContainerSet == ProxyContainerSet \cup OtherInitContainerSet

BasicContainerSet ==
  {Container("app", "nginx", <<>>, <<>>, <<>>),
   Container("app", "nginx", <<>>, <<kubeApiAccess>>, <<>>),
   Container("sidecar", "sidecar", <<>>, <<dataMount>>,
             <<[name |-> "KUBERNETES_SERVICE_HOST", value |-> "old-value"]>>)}

VolumeSet ==
  {[name |-> "data", source |-> "emptyDir"],
   [name |-> "kube-api-access-mca-sa", source |-> "emptyDir"],
   [name |-> "kube-api-access-mca-sa", source |-> "projected"]}

\* *bool: nil, true or false.
Automount == {"nil", "true", "false"}

Pod(initContainers, containers, volumes, automount) ==
  [metadata |-> [name |-> "test-pod"],
   spec |-> [initContainers |-> initContainers,
             containers |-> containers,
             volumes |-> volumes,
             automountServiceAccountToken |-> automount],
   status |-> [phase |-> ""]]

\* Pods that vary the init containers against a few application containers.
InitPods ==
  {Pod(ics, cs, <<>>, "nil") :
     ics \in SeqsUpTo(InitContainerSet, MaxInit),
     cs \in SeqsUpTo(BasicContainerSet, MaxContainers)}

\* Pods that vary the mounts and the env of one application container, which
\* the first loop reaches when there is a non-sidecar init container.
ContainerPods ==
  {Pod(ics, <<Container("app", "nginx", <<>>, mounts, env)>>, <<>>, "nil") :
     ics \in {<<>>, <<Container("init-cache", "redis:init", <<>>, <<>>, <<>>)>>},
     mounts \in SeqsUpTo(VolumeMountSet, MaxMounts),
     env \in SeqsUpTo(EnvVarSet, MaxEnv)}

\* Pods that vary the volumes and the automount flag.
VolumePods ==
  {Pod(<<>>, <<Container("app", "nginx", <<>>, <<>>, <<>>)>>, vs, am) :
     vs \in SeqsUpTo(VolumeSet, MaxVolumes), am \in Automount}

InputPods == InitPods \cup ContainerPods \cup VolumePods

\* ----------------------------------------------------------- state machine
VARIABLES
  pod,         \* the Pod Document the adapter holds: the input, then each result
  in,          \* the argument of the most recent call of injectProxy
  calls,       \* the number of calls of injectProxy so far
  caller,      \* the caller's own value of that argument, after the call
  fault,       \* "none", or the runtime panic that ended the most recent call
  ProxyImage,  \* conf.ProxyImage
  cli,         \* the mca --inject process: stdin, ViaCLI's return, stdout, exit
  web,         \* the webhook's exchange: request body, and what the client gets
  proxy,       \* the proxy's exchange: the client's request, and the one forwarded
  startup,     \* StartProxy: its position, the file system, its error, the server
  variant,     \* which injectProxy the build holds: "selective" or "always"
  goroutines   \* the requests in progress: each call's locals and its position

vars == <<pod, in, caller, calls, fault, ProxyImage, cli, web, proxy, startup, variant, goroutines>>

\* The process before runInject, with input on its standard input.
CLIProcess(input) ==
  [stdin |-> input, returned |-> FALSE, output |-> NilBytes, err |-> "nil",
   stdout |-> [written |-> "nothing", bytes |-> NilBytes], exit |-> "running"]

\* The exchange before handleMutate runs, with body as the request's body.
Exchange(body) ==
  [body |-> body, status |-> "none", error |-> "", response |-> NoResponse]

\* A body that is not an AdmissionReview, and reviews without and with a
\* request.
NotAReview ==
  [review |-> FALSE, request |-> [present |-> FALSE, uid |-> "", raw |-> NilBytes]]

Review(present, uid, raw) ==
  [review |-> TRUE, request |-> [present |-> present, uid |-> uid, raw |-> raw]]

\* An http.Header: its canonical keys, each with its values in order.
NoHeader == [k \in {} |-> <<>>]

\* http.Header.Del(key): the key goes, with all its values.
Del(header, key) == [k \in DOMAIN header \ {key} |-> header[k]]

\* A request as the proxy's handler gets and hands it on.
Request(method, path, header) == [method |-> method, path |-> path, header |-> header]

NoRequest == Request("", "", NoHeader)

\* A variant that hands the request on as it came.
handler_noDel(r) == r

\* Server.handler(w, r): the request it passes to the reverse proxy.
handler(r) == [r EXCEPT !.header = Del(@, "Authorization")]

\* The proxy's exchange before handler runs on request.
Forwarding(request) == [request |-> request, forwarded |-> FALSE, upstream |-> NoRequest]

\* The parts of the program that a specification leaves at rest.
CLIIdle == cli = CLIProcess(NilBytes)

WebhookIdle == web = Exchange(NotAReview)

ProxyIdle == proxy = Forwarding(NoRequest)

\* The files StartProxy reads and writes: a directory and a name each.
Paths ==
  {<<ServiceAccountPath, "ca.crt">>, <<ServiceAccountPath, "namespace">>,
   <<MCAServiceAccountPath, "namespace">>, <<MCAServiceAccountPath, "token">>}

\* conf.FS with no file in it; "" stands for the absence of a file.
NoFiles == [path \in Paths |-> ""]

\* afero.WriteFile(conf.FS, path, data, 0644): it writes, or fails and
\* leaves the file as it was.
WriteFile(fs, path, data, ok) ==
  IF ok THEN [err |-> "nil", fs |-> [fs EXCEPT ![path] = data]]
        ELSE [err |-> "permission denied", fs |-> fs]

\* writeCACertificate(caCertPEM).
writeCACertificate(fs, caCertPEM, ok) ==
  LET w == WriteFile(fs, <<ServiceAccountPath, "ca.crt">>, caCertPEM, ok)
  IN  IF w.err # "nil"
      THEN [err |-> "failed to write CA certificate", fs |-> w.fs]
      ELSE [err |-> "nil", fs |-> w.fs]

\* A variant that goes on without the source file.
writeNamespaceFile_skips(fs, ok) ==
  LET namespace == fs[<<ServiceAccountPath, "namespace">>]
      w == WriteFile(fs, <<MCAServiceAccountPath, "namespace">>, namespace, ok)
  IN  IF namespace = ""
      THEN [err |-> "nil", fs |-> fs]
      ELSE IF w.err # "nil"
      THEN [err |-> "failed to write namespace file", fs |-> w.fs]
      ELSE [err |-> "nil", fs |-> w.fs]

\* writeNamespaceFile().
writeNamespaceFile(fs, ok) ==
  LET namespace == fs[<<ServiceAccountPath, "namespace">>]
      w == WriteFile(fs, <<MCAServiceAccountPath, "namespace">>, namespace, ok)
  IN  IF namespace = ""
      THEN [err |-> "failed to read namespace file", fs |-> fs]
      ELSE IF w.err # "nil"
      THEN [err |-> "failed to write namespace file", fs |-> w.fs]
      ELSE [err |-> "nil", fs |-> w.fs]

\* writeTokenFile().
writeTokenFile(fs, ok) ==
  LET w == WriteFile(fs, <<MCAServiceAccountPath, "token">>, "-", ok)
  IN  IF w.err # "nil"
      THEN [err |-> "failed to write token file", fs |-> w.fs]
      ELSE [err |-> "nil", fs |-> w.fs]

\* StartProxy at its entry, over the file system fs: pc is the step it is
\* about to take, steps the steps it has taken, caCertPEM what
\* GenerateCAAndTLSCert gave it.
Starting(fs) ==
  [pc |-> "generate", steps |-> <<>>, fs |-> fs, caCertPEM |-> "",
   err |-> "nil", serving |-> FALSE]

StartupIdle == startup = Starting(NoFiles)

\* The goroutines of the webhook's http.Server that run mutate at one time.
Goroutines == {"g1", "g2"}

\* A call of injectProxy in a goroutine: the function's locals (pod, the
\* parameter, a copy of the request's Pod; proxyContainer;
\* filteredInitContainers), the argument it was called with, the map
\* iteration orders its loops have met, its position, and how it ended.
Call(pc, argument) ==
  [pc |-> pc,
   in |-> argument,
   pod |-> argument,
   proxyContainer |-> ZeroContainer,
   filteredInitContainers |-> <<>>,
   ordsInit |-> <<>>,
   ordsCont |-> <<>>,
   fault |-> "none"]

NoCall == Call("none", ZeroPod)

GoroutinesIdle == goroutines = [g \in Goroutines |-> NoCall]

Init ==
  /\ pod \in InputPods
  /\ in = pod
  /\ caller = pod
  /\ calls = 0
  /\ fault = "none"
  /\ ProxyImage \in ProxyImages
  /\ variant = "selective"
  /\ CLIIdle
  /\ WebhookIdle
  /\ ProxyIdle
  /\ StartupIdle
  /\ GoroutinesIdle

\* The addEnvVars calls of a loop over containers[1..n]: those whose
\* addVolumeMount returns true.
EnvCalls(containers, n) ==
  {i \in 1..n : addVolumeMount(containers[i]).found}

\* One call of injectProxy on the document the adapter holds (ViaWebhook, or
\* ViaCLI between its parse and its serialization).
InjectProxy ==
  /\ variant = "selective"
  /\ calls < MaxCalls
  /\ fault = "none"
  /\ LET cs == pod.spec.containers
         n == Len(filterInitContainers(pod.spec.initContainers))
     IN  \E ordsInit \in [EnvCalls(cs, IF n <= Len(cs) THEN n ELSE Len(cs)) -> EnvOrders],
            ordsCont \in [EnvCalls(cs, Len(cs)) -> EnvOrders] :
           LET r == injectProxy(pod, ProxyImage, ordsInit, ordsCont)
           IN  /\ pod' = r.pod
               /\ caller' = r.caller
               /\ fault' = r.fault
  /\ in' = pod
  /\ calls' = calls + 1
  /\ UNCHANGED <<ProxyImage, cli, web, proxy, startup, variant, goroutines>>

Next == InjectProxy

Spec == Init /\ [][Next]_vars

\* Pods that vary the mounts and the env of one init container, after a
\* sidecar or not, and pods whose sidecar has a mount at the service-account
\* path and an env of its own.
InitContainerPods ==
  {Pod(ics \o <<Container("init-db", "postgres:init", <<>>, mounts, env)>>,
       <<Container("app", "nginx", <<>>, <<dataMount>>, <<>>)>>, <<>>, "nil") :
     ics \in {<<>>, <<Container("mca-proxy", "", <<"--custom-arg">>, <<>>, <<>>)>>},
     mounts \in SeqsUpTo(VolumeMountSet, MaxMounts),
     env \in SeqsUpTo(EnvVarSet, MaxEnv)}

SidecarPods ==
  {Pod(<<Container("mca-proxy", image, <<"--custom-arg">>, <<kubeApiAccess>>,
                   <<[name |-> "KUBERNETES_SERVICE_HOST", value |-> "old-value"]>>),
         Container("init-db", "postgres:init", <<>>, <<kubeApiAccess>>, <<>>)>>,
       <<Container("app", "nginx", <<>>, <<kubeApiAccess>>, <<>>)>>, <<>>, "nil") :
     image \in {"", "custom-proxy:v2"}}

VariantPods == ContainerPods \cup InitContainerPods \cup SidecarPods

InitVariants ==
  /\ pod \in VariantPods
  /\ in = pod
  /\ caller = pod
  /\ calls = 0
  /\ fault = "none"
  /\ ProxyImage \in ProxyImages
  /\ variant \in {"selective", "always"}
  /\ CLIIdle
  /\ WebhookIdle
  /\ ProxyIdle
  /\ StartupIdle
  /\ GoroutinesIdle

\* One call of the injectProxy of lines 191-226 on the document the adapter
\* holds.
InjectProxyAlways ==
  /\ variant = "always"
  /\ calls < MaxCalls
  /\ fault = "none"
  /\ LET n == Len(filterInitContainers(pod.spec.initContainers))
     IN  \E ordsInit \in [1..n -> EnvOrders],
            ordsCont \in [1..Len(pod.spec.containers) -> EnvOrders],
            spare \in [1..n -> BOOLEAN] :
           LET r == injectProxyAlways(pod, ProxyImage, ordsInit, ordsCont, spare)
           IN  /\ pod' = r.pod
               /\ caller' = r.caller
               /\ fault' = r.fault
  /\ in' = pod
  /\ calls' = calls + 1
  /\ UNCHANGED <<ProxyImage, cli, web, proxy, startup, variant, goroutines>>

NextVariants == InjectProxy \/ InjectProxyAlways

SpecVariants == InitVariants /\ [][NextVariants]_vars

\* The map iteration orders of the addEnvVars calls that injectProxy makes on
\* p in its first loop (up to the index at which it panics) and in its second.
InitLoopOrders(p) ==
  LET cs == p.spec.containers
      n == Len(filterInitContainers(p.spec.initContainers))
  IN  [EnvCalls(cs, IF n <= Len(cs) THEN n ELSE Len(cs)) -> EnvOrders]

ContainerLoopOrders(p) ==
  [EnvCalls(p.spec.containers, Len(p.spec.containers)) -> EnvOrders]

\* What reaches the front ends: the manifests and objects of the tests.
FrontEndPods ==
  ContainerPods \cup
    {Pod(<<Container("init-db", "postgres:init", <<>>, <<kubeApiAccess>>, <<>>),
           Container("init-cache", "redis:init", <<>>, <<>>, <<>>)>>,
         <<Container("app", "nginx", <<>>, <<>>, <<>>)>>, <<>>, "nil")}

StdinSet == {Garbage} \cup {Encoded(p) : p \in FrontEndPods}

UIDSet == {"test-uid", "test-uid-123"}

BodySet ==
  {NotAReview, Review(FALSE, "", NilBytes)} \cup
    {Review(TRUE, uid, raw) : uid \in UIDSet, raw \in StdinSet \cup {EncodedConfigMap}}

\* The engine before a front end has called it.
EngineIdle ==
  /\ pod = ZeroPod
  /\ in = ZeroPod
  /\ caller = ZeroPod
  /\ calls = 0
  /\ fault = "none"
  /\ ProxyImage \in ProxyImages
  /\ variant = "selective"

InitCLI ==
  /\ EngineIdle
  /\ cli \in {CLIProcess(input) : input \in StdinSet}
  /\ WebhookIdle
  /\ ProxyIdle
  /\ StartupIdle
  /\ GoroutinesIdle

\* runInject cannot read its standard input.
RunInjectReadFails ==
  /\ cli.exit = "running"
  /\ cli' = [cli EXCEPT !.exit = "failed to read stdin"]
  /\ UNCHANGED <<pod, in, caller, calls, fault, ProxyImage, web, proxy, startup, variant, goroutines>>

\* runInject reads its standard input, calls ViaCLI, and on a nil error
\* writes the output to standard output; the write ends or fails part way.
\* main ends the process on an error; a panic ends it before any write.
RunInject ==
  /\ cli.exit = "running"
  /\ LET u == unmarshalPod(cli.stdin)
     IN  \E ordsInit \in InitLoopOrders(u.pod), ordsCont \in ContainerLoopOrders(u.pod),
            written \in {"all", "part"} :
           LET v == ViaCLI(cli.stdin, ProxyImage, ordsInit, ordsCont)
               r == injectProxy(u.pod, ProxyImage, ordsInit, ordsCont)
           IN  /\ IF u.err # "nil"
                  THEN UNCHANGED <<pod, in, caller, calls, fault>>
                  ELSE /\ pod' = r.pod
                       /\ in' = u.pod
                       /\ caller' = r.caller
                       /\ calls' = calls + 1
                       /\ fault' = r.fault
               /\ cli' =
                    IF v.fault # "none"
                    THEN [cli EXCEPT !.exit = "panic"]
                    ELSE IF v.err # "nil"
                    THEN [cli EXCEPT !.returned = TRUE, !.output = v.output,
                                     !.err = v.err, !.exit = "failed to inject MCA"]
                    ELSE [cli EXCEPT !.returned = TRUE, !.output = v.output,
                                     !.err = v.err,
                                     !.stdout = [written |-> written, bytes |-> v.output],
                                     !.exit = IF written = "all" THEN "ok"
                                              ELSE "failed to write output"]
  /\ UNCHANGED <<ProxyImage, web, proxy, startup, variant, goroutines>>

NextCLI == RunInjectReadFails \/ RunInject

SpecCLI == InitCLI /\ [][NextCLI]_vars

InitWebhook ==
  /\ EngineIdle
  /\ CLIIdle
  /\ web \in {Exchange(body) : body \in BodySet}
  /\ ProxyIdle
  /\ StartupIdle
  /\ GoroutinesIdle

\* handleMutate cannot read the request's body.
HandleMutateReadFails ==
  /\ web.status = "none"
  /\ web' = [web EXCEPT !.status = "400", !.error = "Failed to read request body"]
  /\ UNCHANGED <<pod, in, caller, calls, fault, ProxyImage, cli, proxy, startup, variant, goroutines>>

\* handleMutate reads the body, deserializes it, calls mutate and writes the
\* serialized review; a panic of mutate unwinds through the handler, and the
\* client gets no response.
HandleMutate ==
  /\ web.status = "none"
  /\ LET admissionReview == web.body
         u == unmarshalPod(admissionReview.request.raw)
         called == admissionReview.review /\ admissionReview.request.present /\ u.err = "nil"
     IN  \E ordsInit \in InitLoopOrders(u.pod), ordsCont \in ContainerLoopOrders(u.pod) :
           LET m == mutate(admissionReview, ProxyImage, ordsInit, ordsCont)
               r == injectProxy(u.pod, ProxyImage, ordsInit, ordsCont)
           IN  /\ IF ~called
                  THEN UNCHANGED <<pod, in, caller, calls, fault>>
                  ELSE /\ pod' = r.pod
                       /\ in' = u.pod
                       /\ caller' = r.caller
                       /\ calls' = calls + 1
                       /\ fault' = r.fault
               /\ web' =
                    IF ~admissionReview.review
                    THEN [web EXCEPT !.status = "400",
                                     !.error = "Failed to unmarshal admission review"]
                    ELSE IF m.fault # "none"
                    THEN [web EXCEPT !.status = "crash", !.error = m.fault]
                    ELSE [web EXCEPT !.status = "200", !.response = m.response]
  /\ UNCHANGED <<ProxyImage, cli, proxy, startup, variant, goroutines>>

NextWebhook == HandleMutateReadFails \/ HandleMutate

SpecWebhook == InitWebhook /\ [][NextWebhook]_vars

\* The headers of the clients' requests: any of these keys, each with one
\* value or more.
HeaderKeys == {"Authorization", "X-Custom-Header", "Content-Type"}

HeaderValues == {"Bearer secret-token", "custom-value"}

HeaderSet ==
  UNION {[keys -> SeqsUpTo(HeaderValues, MaxValues) \ {<<>>}] : keys \in SUBSET HeaderKeys}

RequestSet ==
  {Request(method, path, header) :
     method \in {"GET", "POST"},
     path \in {"/api/v1/pods", "/api/v1/namespaces/default/pods"},
     header \in HeaderSet}

InitProxy ==
  /\ EngineIdle
  /\ CLIIdle
  /\ WebhookIdle
  /\ proxy \in {Forwarding(request) : request \in RequestSet}
  /\ StartupIdle
  /\ GoroutinesIdle

\* The proxy's handler runs on the client's request and passes it to the
\* reverse proxy of the cluster.
Handler ==
  /\ ~proxy.forwarded
  /\ proxy' = [proxy EXCEPT !.forwarded = TRUE, !.upstream = handler(proxy.request)]
  /\ UNCHANGED <<pod, in, caller, calls, fault, ProxyImage, cli, web, startup, variant, goroutines>>

NextProxy == Handler

SpecProxy == InitProxy /\ [][NextProxy]_vars

\* The file systems StartProxy starts over: the namespace file of the
\* mounted service account is there or not, and a token file of an earlier
\* run may be.
FileSystems ==
  {[NoFiles EXCEPT ![<<ServiceAccountPath, "namespace">>] = namespace,
                   ![<<MCAServiceAccountPath, "token">>] = token] :
     namespace \in {"", "default", "kube-system", "test-namespace"},
     token \in {"", "-"}}

InitStartup ==
  /\ EngineIdle
  /\ CLIIdle
  /\ WebhookIdle
  /\ ProxyIdle
  /\ startup \in {Starting(fs) : fs \in FileSystems}
  /\ GoroutinesIdle

\* StartProxy takes the step named step, which ends with r: it goes on to
\* next, or returns r.err.
Step(step, r, next) ==
  startup' = [startup EXCEPT !.steps = Append(@, step),
                             !.fs = r.fs,
                             !.err = r.err,
                             !.pc = IF r.err = "nil" THEN next ELSE "returned"]

GenerateCAAndTLSCert ==
  /\ startup.pc = "generate"
  /\ \/ \E caCertPEM \in {"ca-cert-1", "ca-cert-2"} :
          startup' = [startup EXCEPT !.steps = Append(@, "generate"),
                                     !.caCertPEM = caCertPEM,
                                     !.pc = "writeCACertificate"]
     \/ Step("generate", [err |-> "failed to generate certificates", fs |-> startup.fs],
             "writeCACertificate")
  /\ UNCHANGED <<pod, in, caller, calls, fault, ProxyImage, cli, web, proxy, variant, goroutines>>

WriteCACertificate ==
  /\ startup.pc = "writeCACertificate"
  /\ \E ok \in BOOLEAN :
       Step("writeCACertificate", writeCACertificate(startup.fs, startup.caCertPEM, ok),
            "writeNamespaceFile")
  /\ UNCHANGED <<pod, in, caller, calls, fault, ProxyImage, cli, web, proxy, variant, goroutines>>

WriteNamespaceFile ==
  /\ startup.pc = "writeNamespaceFile"
  /\ \E ok \in BOOLEAN :
       Step("writeNamespaceFile", writeNamespaceFile(startup.fs, ok), "writeTokenFile")
  /\ UNCHANGED <<pod, in, caller, calls, fault, ProxyImage, cli, web, proxy, variant, goroutines>>

WriteTokenFile ==
  /\ startup.pc = "writeTokenFile"
  /\ \E ok \in BOOLEAN :
       Step("writeTokenFile", writeTokenFile(startup.fs, ok), "start")
  /\ UNCHANGED <<pod, in, caller, calls, fault, ProxyImage, cli, web, proxy, variant, goroutines>>

\* proxy.NewServer(tlsCert) and server.Start(), which serves until it fails.
StartServer ==
  /\ startup.pc = "start"
  /\ startup' = [startup EXCEPT !.steps = Append(@, "start"), !.serving = TRUE,
                                !.pc = "serving"]
  /\ UNCHANGED <<pod, in, caller, calls, fault, ProxyImage, cli, web, proxy, variant, goroutines>>

NextStartup ==
  \/ GenerateCAAndTLSCert
  \/ WriteCACertificate
  \/ WriteNamespaceFile
  \/ WriteTokenFile
  \/ StartServer

SpecStartup == InitStartup /\ [][NextStartup]_vars

\* ----------------------------------------------------- concurrent requests
\* The Pods of the requests that are served at one time: with a sidecar to
\* adopt or to default, with a container to redirect, and with more init
\* containers than containers.
ConcurrentPods ==
  SidecarPods \cup
  {Pod(<<>>, <<Container("app", "nginx", <<>>, <<kubeApiAccess>>, <<>>)>>, <<>>, "nil"),
   Pod(<<Container("init-db", "postgres:init", <<>>, <<>>, <<>>),
         Container("init-cache", "redis:init", <<>>, <<>>, <<>>)>>,
       <<Container("app", "nginx", <<>>, <<kubeApiAccess>>, <<>>)>>, <<>>, "nil")}

\* Each goroutine has deserialized its own request into its own Pod and is
\* about to call inject.ViaWebhook on it.
InitConcurrent ==
  /\ EngineIdle
  /\ CLIIdle
  /\ WebhookIdle
  /\ ProxyIdle
  /\ StartupIdle
  /\ goroutines \in [Goroutines -> {Call("scan", argument) : argument \in ConcurrentPods}]

\* What a step of a goroutine leaves alone: everything but its own locals.
\* conf.ProxyImage and proxyContainerYAML are read, never assigned.
GoroutineFrame ==
  UNCHANGED <<pod, in, caller, calls, fault, ProxyImage, cli, web, proxy, startup, variant>>

\* injectProxy, lines 46-54: the scan of pod.Spec.InitContainers.
ScanInitContainers ==
  \E g \in Goroutines :
    /\ goroutines[g].pc = "scan"
    /\ goroutines' =
         [goroutines EXCEPT
            ![g].proxyContainer = scanProxyContainer(goroutines[g].pod.spec.initContainers),
            ![g].filteredInitContainers =
               filterInitContainers(goroutines[g].pod.spec.initContainers),
            ![g].pc = "default"]
    /\ GoroutineFrame

\* A variant that keeps the image of the sidecar it adopts in conf.ProxyImage.
DefaultProxyContainer_storesImage ==
  \E g \in Goroutines :
    /\ goroutines[g].pc = "default"
    /\ goroutines' =
         [goroutines EXCEPT
            ![g].proxyContainer = defaultProxy(@, ProxyImage),
            ![g].pc = "assign"]
    /\ ProxyImage' = IF goroutines[g].proxyContainer.image = ""
                     THEN ProxyImage
                     ELSE goroutines[g].proxyContainer.image
    /\ UNCHANGED <<pod, in, caller, calls, fault, cli, web, proxy, startup, variant>>

\* injectProxy, lines 56-61: the template and conf.ProxyImage are read.
DefaultProxyContainer ==
  \E g \in Goroutines :
    /\ goroutines[g].pc = "default"
    /\ goroutines' =
         [goroutines EXCEPT
            ![g].proxyContainer = defaultProxy(@, ProxyImage),
            ![g].pc = "assign"]
    /\ GoroutineFrame

\* injectProxy, line 63.
AssignInitContainers ==
  \E g \in Goroutines :
    /\ goroutines[g].pc = "assign"
    /\ goroutines' =
         [goroutines EXCEPT
            ![g].pod.spec.initContainers =
               <<goroutines[g].proxyContainer>> \o goroutines[g].filteredInitContainers,
            ![g].pc = "init loop"]
    /\ GoroutineFrame

\* injectProxy, lines 65-70: the loop over filteredInitContainers, which
\* panics when they outnumber the containers; net/http recovers the panic
\* in the goroutine of the request.
RedirectInitLoop ==
  \E g \in Goroutines :
    LET n == Len(goroutines[g].filteredInitContainers)
        cs == goroutines[g].pod.spec.containers
    IN  /\ goroutines[g].pc = "init loop"
        /\ \E ordsInit \in [1..n -> EnvOrders] :
             goroutines' =
               IF n > Len(cs)
               THEN [goroutines EXCEPT
                       ![g].pod.spec.containers = initContainerLoop(cs, Len(cs), ordsInit),
                       ![g].ordsInit = ordsInit,
                       ![g].fault = "index out of range",
                       ![g].pc = "panicked"]
               ELSE [goroutines EXCEPT
                       ![g].pod.spec.containers = initContainerLoop(cs, n, ordsInit),
                       ![g].ordsInit = ordsInit,
                       ![g].pc = "container loop"]
        /\ GoroutineFrame

\* injectProxy, lines 72-77: the loop over pod.Spec.Containers.
RedirectContainers ==
  \E g \in Goroutines :
    LET cs == goroutines[g].pod.spec.containers
    IN  /\ goroutines[g].pc = "container loop"
        /\ \E ordsCont \in [1..Len(cs) -> EnvOrders] :
             goroutines' =
               [goroutines EXCEPT
                  ![g].pod.spec.containers = containerLoop(cs, ordsCont),
                  ![g].ordsCont = ordsCont,
                  ![g].pc = "volume"]
        /\ GoroutineFrame

\* injectProxy, lines 79-81: addRequiredVolume, and the return.
AddRequiredVolume ==
  \E g \in Goroutines :
    /\ goroutines[g].pc = "volume"
    /\ goroutines' =
         [goroutines EXCEPT
            ![g].pod = addRequiredVolume(@),
            ![g].pc = "returned"]
    /\ GoroutineFrame

NextConcurrent ==
  \/ ScanInitContainers
  \/ DefaultProxyContainer
  \/ AssignInitContainers
  \/ RedirectInitLoop
  \/ RedirectContainers
  \/ AddRequiredVolume

SpecConcurrent == InitConcurrent /\ [][NextConcurrent]_vars

\* ------------------------------------------------------------------ claims
\* The call of injectProxy returned: pod is its result, in its argument.
Returned == calls >= 1 /\ fault = "none"

IsProxy(c) == c.name = "mca-proxy"

SAMounts(c) ==
  {k \in 1..Len(c.volumeMounts) : c.volumeMounts[k].mountPath = ServiceAccountPath}

HasEnv(c, n, v) == \E j \in 1..Len(c.env) : c.env[j] = [name |-> n, value |-> v]

Redirected(c) ==
  /\ c.volumeMounts[MinOf(SAMounts(c))].name = "kube-api-access-mca-sa"
  /\ HasEnv(c, "KUBERNETES_SERVICE_HOST", "127.0.0.1")
  /\ HasEnv(c, "KUBERNETES_SERVICE_PORT", "6443")

\* C1: the pod returned by injectProxy has exactly one init container named
\* mca-proxy, and it is at index 0 of spec.initContainers (index 1 here).
C1_SidecarOnceAndFirst ==
  Returned =>
    LET ics == pod.spec.initContainers
    IN  /\ Len(ics) >= 1
        /\ IsProxy(ics[1])
        /\ \A i \in 2..Len(ics) : ~IsProxy(ics[i])

\* C1's case: the input listed several init containers named mca-proxy and
\* began with another container.
C1_Witness ==
  /\ Returned
  /\ Cardinality({i \in 1..Len(in.spec.initContainers) :
                    IsProxy(in.spec.initContainers[i])}) >= 2
  /\ ~IsProxy(in.spec.initContainers[1])
  /\ Len(pod.spec.initContainers) = 2

\* C2: a second (and any later) call of injectProxy, on the result of the
\* call before it, returns and returns its argument unchanged: the same init
\* containers in the same order, the same volumes, the same mounts and env in
\* every container.
C2_Idempotent == calls >= 2 => (fault = "none" /\ pod = in)

\* C2's case: the second call acted on a result that holds a sidecar, another
\* init container, a redirected container whose env the first call extended,
\* and the redirect volume.
C2_Witness ==
  /\ calls = 2
  /\ fault = "none"
  /\ Len(pod.spec.initContainers) >= 2
  /\ Len(pod.spec.volumes) >= 1
  /\ \E i \in 1..Len(pod.spec.containers) :
       /\ SAMounts(pod.spec.containers[i]) # {}
       /\ Redirected(pod.spec.containers[i])
       /\ Len(pod.spec.containers[i].env) >= 3

\* C3: in the pod injectProxy returns, spec.automountServiceAccountToken is
\* false, whatever it was in the input.
C3_AutomountDisabled ==
  Returned => pod.spec.automountServiceAccountToken = "false"

\* C4: when the input lists an init container named mca-proxy, whatever its
\* field values, the output sidecar is that container unchanged; the template
\* and the configured image are used only when the input lists none.
C4_CustomSidecarPreserved ==
  Returned =>
    LET proxies == {i \in 1..Len(in.spec.initContainers) :
                      IsProxy(in.spec.initContainers[i])}
        template == [ZeroContainer EXCEPT
                       !.name = "mca-proxy", !.image = ProxyImage,
                       !.restartPolicy = "Always", !.imagePullPolicy = "Always",
                       !.securityContext = [isNil |-> FALSE, runAsNonRoot |-> TRUE,
                                            runAsUser |-> 999, privileged |-> FALSE],
                       !.args = <<"--proxy">>,
                       !.volumeMounts = <<[name |-> "kube-api-access-mca-sa",
                                           mountPath |-> MCAServiceAccountPath,
                                           readOnly |-> FALSE]>>]
    IN  IF proxies # {}
        THEN \E i \in proxies : pod.spec.initContainers[1] = in.spec.initContainers[i]
        ELSE pod.spec.initContainers[1] = template

\* C5: the returned spec.initContainers is the sidecar followed by the input
\* init containers not named mca-proxy, each once and in their input order.
C5_OtherInitContainersInOrder ==
  Returned =>
    LET ics == in.spec.initContainers
        others == {i \in 1..Len(ics) : ~IsProxy(ics[i])}
        out == pod.spec.initContainers
    IN  /\ Len(out) = 1 + Cardinality(others)
        /\ IsProxy(out[1])
        /\ \A i \in others :
             out[1 + Cardinality({j \in others : j <= i})] = ics[i]

\* C5's case: two different non-sidecar init containers with a sidecar
\* between them.
C5_Witness ==
  /\ Returned
  /\ Len(in.spec.initContainers) = 3
  /\ IsProxy(in.spec.initContainers[2])
  /\ ~IsProxy(in.spec.initContainers[1])
  /\ ~IsProxy(in.spec.initContainers[3])
  /\ in.spec.initContainers[1] # in.spec.initContainers[3]
  /\ Len(pod.spec.initContainers) = 3

\* C6: injectProxy ends with no runtime fault (and no error) on every pod,
\* also when the non-sidecar init containers outnumber the containers.
C6_Infallible == fault = "none"

\* C7: every container of spec.containers with a mount at the service-account
\* path comes out with that mount (the one the lookup by mountPath finds)
\* named kube-api-access-mca-sa, with every mount's mountPath and readOnly as
\* in the input, and with KUBERNETES_SERVICE_HOST=127.0.0.1 and
\* KUBERNETES_SERVICE_PORT=6443 in its env.
C7_MountRedirectedByPath ==
  Returned =>
    /\ Len(pod.spec.containers) = Len(in.spec.containers)
    /\ \A i \in 1..Len(in.spec.containers) :
         LET c == in.spec.containers[i]
             o == pod.spec.containers[i]
         IN  SAMounts(c) # {} =>
               /\ Len(o.volumeMounts) = Len(c.volumeMounts)
               /\ \A k \in 1..Len(c.volumeMounts) :
                    /\ o.volumeMounts[k].mountPath = c.volumeMounts[k].mountPath
                    /\ o.volumeMounts[k].readOnly = c.volumeMounts[k].readOnly
               /\ Redirected(o)

\* C7's case: the mount at the service-account path is the second mount, is
\* named kube-api-access-2 and is not read-only, and the env already names
\* KUBERNETES_SERVICE_HOST.
C7_Witness ==
  /\ Returned
  /\ \E i \in 1..Len(in.spec.containers) :
       /\ in.spec.containers[i].volumeMounts = <<dataMount, kubeApiAccess2>>
       /\ HasEnv(in.spec.containers[i], "KUBERNETES_SERVICE_HOST", "old-value")
       /\ pod.spec.containers[i].volumeMounts[2].name = "kube-api-access-mca-sa"

\* C8: every non-sidecar init container with a mount at the service-account
\* path is redirected in the returned pod like a regular container: the mount
\* renamed, both env vars set.
C8_InitContainersRedirected ==
  Returned =>
    \A i \in 2..Len(pod.spec.initContainers) :
      SAMounts(pod.spec.initContainers[i]) # {} =>
        Redirected(pod.spec.initContainers[i])

\* C9: a container with no mount at the service-account path comes out with
\* its volumeMounts and env exactly as in the input.
C9_UnmountedContainersUntouched ==
  Returned =>
    /\ Len(pod.spec.containers) = Len(in.spec.containers)
    /\ \A i \in 1..Len(in.spec.containers) :
         SAMounts(in.spec.containers[i]) = {} =>
           /\ pod.spec.containers[i].volumeMounts = in.spec.containers[i].volumeMounts
           /\ pod.spec.containers[i].env = in.spec.containers[i].env

\* C9's case: a pod with init containers whose first container is redirected
\* and whose second has another mount and an env of its own.
C9_Witness ==
  /\ Returned
  /\ Len(in.spec.initContainers) >= 2
  /\ Len(in.spec.containers) = 2
  /\ SAMounts(in.spec.containers[1]) # {}
  /\ SAMounts(in.spec.containers[2]) = {}
  /\ in.spec.containers[2].volumeMounts # <<>>
  /\ in.spec.containers[2].env # <<>>
  /\ pod.spec.containers[1] # in.spec.containers[1]

\* C10: addEnvVars, on every container it is applied to: the first entry
\* named KUBERNETES_SERVICE_HOST (KUBERNETES_SERVICE_PORT) has its value
\* replaced at its index; a name that is absent is appended after the existing
\* entries; every other entry keeps its name, value and index; the length
\* grows by the number of absent names.
C10_EnvUpsert ==
  Returned =>
    \A i \in 1..Len(in.spec.containers) :
      LET e == in.spec.containers[i].env
          o == pod.spec.containers[i].env
          first(n) == {j \in 1..Len(e) :
                         e[j].name = n /\ \A h \in 1..(j - 1) : e[h].name # n}
          absent == {n \in DOMAIN envVars : first(n) = {}}
      IN  SAMounts(in.spec.containers[i]) # {} =>
            /\ Len(o) = Len(e) + Cardinality(absent)
            /\ \A j \in 1..Len(e) :
                 /\ o[j].name = e[j].name
                 /\ o[j].value = IF e[j].name \in DOMAIN envVars /\ j \in first(e[j].name)
                                 THEN envVars[e[j].name] ELSE e[j].value
            /\ \A n \in absent :
                 \E j \in (Len(e) + 1)..Len(o) :
                   o[j] = [name |-> n, value |-> envVars[n]]

\* C10's case: one name present after another entry, the other name absent.
C10_Witness ==
  /\ Returned
  /\ \E i \in 1..Len(in.spec.containers) :
       /\ SAMounts(in.spec.containers[i]) # {}
       /\ in.spec.containers[i].env =
            <<[name |-> "APP_ENV", value |-> "production"],
              [name |-> "KUBERNETES_SERVICE_PORT", value |-> "443"]>>
       /\ pod.spec.containers[i].env =
            <<[name |-> "APP_ENV", value |-> "production"],
              [name |-> "KUBERNETES_SERVICE_PORT", value |-> "6443"],
              [name |-> "KUBERNETES_SERVICE_HOST", value |-> "127.0.0.1"]>>

\* The indices of the entries of env named n.
EnvNamed(env, n) == {j \in 1..Len(env) : env[j].name = n}

\* C11: after the call every container that has a mount at the service account
\* path holds exactly one entry named KUBERNETES_SERVICE_HOST, of value
\* 127.0.0.1, and exactly one named KUBERNETES_SERVICE_PORT, of value 6443,
\* whatever its env listed before.
C11_ExactlyOneHostAndPort ==
  Returned =>
    \A i \in 1..Len(pod.spec.containers) :
      LET c == pod.spec.containers[i]
      IN  SAMounts(c) # {} =>
            /\ Cardinality(EnvNamed(c.env, "KUBERNETES_SERVICE_HOST")) = 1
            /\ Cardinality(EnvNamed(c.env, "KUBERNETES_SERVICE_PORT")) = 1
            /\ HasEnv(c, "KUBERNETES_SERVICE_HOST", "127.0.0.1")
            /\ HasEnv(c, "KUBERNETES_SERVICE_PORT", "6443")

\* The indices of the volumes named kube-api-access-mca-sa.
RedirectVolumes(volumes) ==
  {k \in 1..Len(volumes) : volumes[k].name = "kube-api-access-mca-sa"}

\* spec.volumes is keyed by name: no two volumes of the pod share one.
VolumeNamesUnique(p) ==
  \A j, k \in 1..Len(p.spec.volumes) :
    p.spec.volumes[j].name = p.spec.volumes[k].name => j = k

C13_VolumesFrame ==
  Returned =>
    LET vin == in.spec.volumes
        vout == pod.spec.volumes
    IN  /\ Len(vout) >= Len(vin)
        /\ SubSeq(vout, 1, Len(vin)) = vin
        /\ \/ Len(vout) = Len(vin)
           \/ /\ Len(vout) = Len(vin) + 1
              /\ vout[Len(vout)] = [name |-> "kube-api-access-mca-sa", source |-> "emptyDir"]

\* C13's case: the input lists kube-api-access-mca-sa first, with a projected
\* source, and another volume after it.
C13_Witness ==
  /\ Returned
  /\ in.spec.volumes = <<[name |-> "kube-api-access-mca-sa", source |-> "projected"],
                         [name |-> "data", source |-> "emptyDir"]>>
  /\ pod.spec.volumes = in.spec.volumes

\* C14: the result of a call is a function of its argument and of
\* conf.ProxyImage: every call of injectProxy on the same argument, under the
\* same configuration, returns the pod this one returned, whatever order the
\* runtime ranges over envVars in.
C14_Deterministic ==
  Returned =>
    LET cs == in.spec.containers
        n == Len(filterInitContainers(in.spec.initContainers))
    IN  \A ordsInit \in [EnvCalls(cs, n) -> EnvOrders],
           ordsCont \in [EnvCalls(cs, Len(cs)) -> EnvOrders] :
          injectProxy(in, ProxyImage, ordsInit, ordsCont).pod = pod

\* C15: after a call of injectProxy the caller's own Pod value equals the
\* argument it passed.
C15_NoSideEffects == calls >= 1 => caller = in

\* C16: a call under an empty conf.ProxyImage on a pod without an init
\* container named mca-proxy ends in a ConfigurationMissing error, not in a
\* returned pod.
C16_ConfigurationMissing ==
  (/\ calls >= 1
   /\ ProxyImage = ""
   /\ \A i \in 1..Len(in.spec.initContainers) : ~IsProxy(in.spec.initContainers[i]))
    => fault = "ConfigurationMissing"

\* C17: whenever ViaCLI has returned, it returned either the serialization of
\* the complete mutation of the parsed manifest with a nil error, or nil bytes
\* with an error naming the boundary that failed; and standard output holds
\* something only in the first case, namely bytes of that serialization.
C17_AllOrNothing ==
  /\ cli.returned =>
       \/ /\ cli.err = "nil"
          /\ unmarshalPod(cli.stdin).err = "nil"
          /\ Returned
          /\ in = unmarshalPod(cli.stdin).pod
          /\ cli.output = marshalPod(pod)
       \/ /\ cli.err \in {"failed to unmarshal pod", "failed to marshal pod"}
          /\ cli.output = NilBytes
  /\ cli.stdout.written # "nothing" =>
       /\ cli.returned
       /\ cli.err = "nil"
       /\ cli.stdout.bytes = cli.output

\* C17's case: the manifest on standard input does not parse; ViaCLI returned
\* the error, the process ended on it, and standard output is empty.
C17_Witness ==
  /\ cli.returned
  /\ cli.err = "failed to unmarshal pod"
  /\ cli.output = NilBytes
  /\ cli.exit = "failed to inject MCA"
  /\ cli.stdout.written = "nothing"

\* C18: every response that Server.mutate returned carries the UID of the
\* request, whether it allows or denies.
C18_UIDPreserved ==
  web.status = "200" => web.response.uid = web.body.request.uid

\* C18's case: a denial, for an object that is not a pod, of a request with a
\* UID.
C18_Witness ==
  /\ web.status = "200"
  /\ ~web.response.allowed
  /\ web.body.request.uid = "test-uid-123"
  /\ web.response.uid = "test-uid-123"

\* Server.mutate was called, on a review that carries a request.
MutateCalled ==
  /\ web.status \in {"200", "crash"}
  /\ web.body.request.present

\* C19: a call of Server.mutate answers with a denial that carries a message
\* when the embedded object does not deserialize as a pod, and with
\* Allowed=true, PatchType JSONPatch and a non-empty patch in every other case.
C19_DeniesOnlyUndeserializable ==
  MutateCalled =>
    /\ web.status = "200"
    /\ IF unmarshalPod(web.body.request.raw).err # "nil"
       THEN /\ ~web.response.allowed
            /\ web.response.message # ""
       ELSE /\ web.response.allowed
            /\ web.response.patchType = "JSONPatch"
            /\ web.response.patch # <<>>

\* C20: once handleMutate has handled a body that it could read and that
\* deserializes as an AdmissionReview, the client has a structured response:
\* status 200 with a review, not an HTTP error and not a crashed handler.
C20_NoTransportFault ==
  (/\ web.status # "none"
   /\ web.error # "Failed to read request body"
   /\ web.body.review)
    => web.status = "200"

\* The object a JSON patch yields: each replace of /spec puts its value in
\* the place of the object's spec.
RECURSIVE ApplyPatch(_, _)
ApplyPatch(object, patch) ==
  IF patch = <<>>
  THEN object
  ELSE ApplyPatch(
         IF Head(patch).op = "replace" /\ Head(patch).path = "/spec"
         THEN [object EXCEPT !.spec = Head(patch).value]
         ELSE object,
         Tail(patch))

\* The response allows the request whose object is the encoding of a pod.
AllowedPod ==
  /\ web.status = "200"
  /\ web.response.allowed
  /\ web.body.request.raw.kind = "pod"

\* C21: on allow, the patch is the one operation replace /spec with the spec
\* of the pod the mutation returned; applied to the request's pod it yields
\* that pod, whose metadata and status are the request's.
C21_PatchReplacesSpec ==
  AllowedPod =>
    LET original == web.body.request.raw.pod
    IN  /\ web.response.patch =
             <<[op |-> "replace", path |-> "/spec", value |-> pod.spec]>>
        /\ ApplyPatch(original, web.response.patch) = pod
        /\ pod.metadata = original.metadata
        /\ pod.status = original.status

\* C21's case: the allowed pod had a mount to redirect, so the spec of the
\* patch differs from the original's.
C21_Witness ==
  /\ AllowedPod
  /\ web.body.request.raw.pod.spec.initContainers = <<>>
  /\ Len(web.response.patch) = 1
  /\ web.response.patch[1].value # web.body.request.raw.pod.spec
  /\ IsProxy(web.response.patch[1].value.initContainers[1])

\* C22: a request whose object is a ConfigMap is answered Allowed=true with
\* the request's UID and without a patch.
C22_NonPodPassesThrough ==
  (web.status # "none" /\ web.body.review /\ web.body.request.present
     /\ web.body.request.raw.kind = "configmap"
     /\ web.error # "Failed to read request body")
    => /\ web.status = "200"
       /\ web.response.allowed
       /\ web.response.uid = web.body.request.uid
       /\ web.response.patchType = "nil"
       /\ web.response.patch = <<>>

\* C26: the request that the proxy passes upstream carries no Authorization
\* header, and its other headers, its method and its path are the client's.
C26_AuthorizationStripped ==
  proxy.forwarded =>
    /\ "Authorization" \notin DOMAIN proxy.upstream.header
    /\ DOMAIN proxy.upstream.header = DOMAIN proxy.request.header \ {"Authorization"}
    /\ \A k \in DOMAIN proxy.upstream.header :
         proxy.upstream.header[k] = proxy.request.header[k]
    /\ proxy.upstream.method = proxy.request.method
    /\ proxy.upstream.path = proxy.request.path

\* C26's case: the client sent Authorization with two values next to another
\* header, in a POST.
C26_Witness ==
  /\ proxy.forwarded
  /\ proxy.request.method = "POST"
  /\ DOMAIN proxy.request.header = {"Authorization", "X-Custom-Header"}
  /\ Len(proxy.request.header["Authorization"]) = 2
  /\ DOMAIN proxy.upstream.header = {"X-Custom-Header"}

\* The steps of StartProxy, in its order.
StartupOrder ==
  <<"generate", "writeCACertificate", "writeNamespaceFile", "writeTokenFile", "start">>

\* The step that returns the error err.
FailingStep(err) ==
  CASE err = "failed to generate certificates" -> 1
    [] err = "failed to write CA certificate" -> 2
    [] err \in {"failed to read namespace file", "failed to write namespace file"} -> 3
    [] err = "failed to write token file" -> 4
    [] OTHER -> 0

\* C27: the steps StartProxy has taken are a prefix of generate, write the CA
\* certificate, copy the namespace file, write the token, start; the server
\* is started only with the CA certificate written, the namespace copied and
\* the token "-" in place and no error; and once a step has failed, that step
\* is the last one taken, its error is what StartProxy returns and the server
\* is not started.
C27_StartupOrder ==
  /\ Len(startup.steps) <= Len(StartupOrder)
  /\ startup.steps = SubSeq(StartupOrder, 1, Len(startup.steps))
  /\ startup.serving =>
       /\ startup.err = "nil"
       /\ startup.fs[<<ServiceAccountPath, "ca.crt">>] = startup.caCertPEM
       /\ startup.caCertPEM # ""
       /\ startup.fs[<<ServiceAccountPath, "namespace">>] # ""
       /\ startup.fs[<<MCAServiceAccountPath, "namespace">>] =
            startup.fs[<<ServiceAccountPath, "namespace">>]
       /\ startup.fs[<<MCAServiceAccountPath, "token">>] = "-"
  /\ startup.err # "nil" =>
       /\ startup.pc = "returned"
       /\ ~startup.serving
       /\ Len(startup.steps) = FailingStep(startup.err)

\* C27's case: the namespace file of the service account is missing; the CA
\* certificate was written, the copy failed, no token was written and the
\* server is not started.
C27_Witness ==
  /\ startup.err = "failed to read namespace file"
  /\ startup.steps = <<"generate", "writeCACertificate", "writeNamespaceFile">>
  /\ startup.fs[<<ServiceAccountPath, "ca.crt">>] # ""
  /\ startup.fs[<<MCAServiceAccountPath, "token">>] = ""
  /\ ~startup.serving

\* C28: in the returned pod no container of spec.containers has a mount at
\* the service-account path under a name other than kube-api-access-mca-sa.
C28_NoDefaultCredentialMount ==
  Returned =>
    \A i \in 1..Len(pod.spec.containers) :
      \A k \in 1..Len(pod.spec.containers[i].volumeMounts) :
        LET mount == pod.spec.containers[i].volumeMounts[k]
        IN  mount.mountPath = ServiceAccountPath => mount.name = "kube-api-access-mca-sa"

\* C29: the returned pod has the containers of the input, one for one and in
\* order, each with the input's name, image, args, securityContext and
\* policies, and with the input's mounts but for the names of those at the
\* service-account path, which are the input's or kube-api-access-mca-sa.
C29_ContainersFrame ==
  Returned =>
    /\ Len(pod.spec.containers) = Len(in.spec.containers)
    /\ \A i \in 1..Len(in.spec.containers) :
         LET c == in.spec.containers[i]
             o == pod.spec.containers[i]
         IN  /\ o.name = c.name
             /\ o.image = c.image
             /\ o.args = c.args
             /\ o.securityContext = c.securityContext
             /\ o.restartPolicy = c.restartPolicy
             /\ o.imagePullPolicy = c.imagePullPolicy
             /\ Len(o.volumeMounts) = Len(c.volumeMounts)
             /\ \A k \in 1..Len(c.volumeMounts) :
                  /\ o.volumeMounts[k].mountPath = c.volumeMounts[k].mountPath
                  /\ o.volumeMounts[k].readOnly = c.volumeMounts[k].readOnly
                  /\ \/ o.volumeMounts[k].name = c.volumeMounts[k].name
                     \/ /\ c.volumeMounts[k].mountPath = ServiceAccountPath
                        /\ o.volumeMounts[k].name = "kube-api-access-mca-sa"

\* C29's case: a container with a data mount and, after it, a writable mount
\* at the service-account path, which is renamed and stays writable.
C29_Witness ==
  /\ Returned
  /\ Len(in.spec.containers) = 1
  /\ in.spec.containers[1].volumeMounts = <<dataMount, kubeApiAccess2>>
  /\ pod.spec.containers[1].volumeMounts =
       <<dataMount, [kubeApiAccess2 EXCEPT !.name = "kube-api-access-mca-sa"]>>
  /\ pod.spec.containers[1].env # in.spec.containers[1].env

\* The redirect mount of the always-redirect variant.
RedirectMount ==
  [name |-> "kube-api-access-mca-sa", mountPath |-> ServiceAccountPath, readOnly |-> TRUE]

\* C24: after a call of the always-redirect variant every container of
\* spec.containers has exactly one mount at the service-account path, the
\* read-only mount kube-api-access-mca-sa, in the place of the input's mount
\* at that path or after the input's mounts, and has
\* KUBERNETES_SERVICE_HOST=127.0.0.1 and KUBERNETES_SERVICE_PORT=6443.
C24_AlwaysRedirectsContainers ==
  (variant = "always" /\ Returned) =>
    /\ Len(pod.spec.containers) = Len(in.spec.containers)
    /\ \A i \in 1..Len(in.spec.containers) :
         LET c == in.spec.containers[i]
             o == pod.spec.containers[i]
         IN  /\ Cardinality(SAMounts(o)) = 1
             /\ o.volumeMounts[MinOf(SAMounts(o))] = RedirectMount
             /\ IF SAMounts(c) # {}
                THEN o.volumeMounts = [c.volumeMounts EXCEPT ![MinOf(SAMounts(c))] = RedirectMount]
                ELSE o.volumeMounts = Append(c.volumeMounts, RedirectMount)
             /\ HasEnv(o, "KUBERNETES_SERVICE_HOST", "127.0.0.1")
             /\ HasEnv(o, "KUBERNETES_SERVICE_PORT", "6443")

\* C25: after a call of the always-redirect variant every init container of
\* the returned pod other than the sidecar has the mount
\* kube-api-access-mca-sa at the service-account path, and
\* KUBERNETES_SERVICE_HOST=127.0.0.1 and KUBERNETES_SERVICE_PORT=6443.
C25_AlwaysRedirectsInitContainers ==
  (variant = "always" /\ Returned) =>
    \A i \in 1..Len(pod.spec.initContainers) :
      LET o == pod.spec.initContainers[i]
      IN  ~IsProxy(o) =>
            /\ \E k \in SAMounts(o) : o.volumeMounts[k].name = "kube-api-access-mca-sa"
            /\ HasEnv(o, "KUBERNETES_SERVICE_HOST", "127.0.0.1")
            /\ HasEnv(o, "KUBERNETES_SERVICE_PORT", "6443")

\* C30: in either variant the first init container of the returned pod is
\* the sidecar as adopted or as defaulted, not redirected: with an image, the
\* input's last mca-proxy container as it was; otherwise with the mount of
\* the template, and with the env of the template (always-redirect) or of
\* the input's container (selective).
C30_SidecarNotRedirected ==
  Returned =>
    LET ics == in.spec.initContainers
        idx == {i \in 1..Len(ics) : IsProxy(ics[i])}
        sidecar == pod.spec.initContainers[1]
    IN  IF idx # {} /\ ics[MaxOf(idx)].image # ""
        THEN sidecar = ics[MaxOf(idx)]
        ELSE /\ sidecar.volumeMounts =
                  <<[name |-> "kube-api-access-mca-sa",
                     mountPath |-> MCAServiceAccountPath, readOnly |-> FALSE]>>
             /\ sidecar.env =
                  IF variant = "always"
                  THEN <<[name |-> "NAMESPACE", value |-> "fieldRef:metadata.namespace"]>>
                  ELSE IF idx = {} THEN <<>> ELSE ics[MaxOf(idx)].env

\* C30's case: the always-redirect variant adopts a sidecar that has a mount
\* at the service-account path and names KUBERNETES_SERVICE_HOST, next to an
\* init container and a container that it redirects.
C30_Witness ==
  /\ Returned
  /\ variant = "always"
  /\ Len(in.spec.initContainers) = 2
  /\ IsProxy(in.spec.initContainers[1])
  /\ in.spec.initContainers[1].image = "custom-proxy:v2"
  /\ pod.spec.initContainers[1].volumeMounts = <<kubeApiAccess>>
  /\ pod.spec.initContainers[1].env =
       <<[name |-> "KUBERNETES_SERVICE_HOST", value |-> "old-value"]>>
  /\ pod.spec.containers[1].volumeMounts = <<RedirectMount>>

\* C23: under every interleaving of the calls that run at one time, each on
\* the Pod of its own request, a call that has returned has the result that
\* injectProxy gives for its argument alone (with the map iteration orders
\* it met), and a call has panicked only if injectProxy alone panics on its
\* argument: no call reads what another has written.
C23_NoInterference ==
  \A g \in Goroutines :
    LET call == goroutines[g]
        alone == injectProxy(call.in, ProxyImage, call.ordsInit,
                             IF call.pc = "returned" THEN call.ordsCont
                             ELSE [i \in 1..Len(call.in.spec.containers) |->
                                     <<"KUBERNETES_SERVICE_HOST", "KUBERNETES_SERVICE_PORT">>])
    IN  /\ call.pc = "returned" => alone.fault = "none" /\ call.pod = alone.pod
        /\ call.pc = "panicked" => alone.fault = call.fault /\ call.pod.spec.containers = alone.caller.spec.containers

\* C23's case: a call that defaulted its sidecar from conf.ProxyImage has
\* returned while the call of another request, which adopts a sidecar with
\* an image of its own, is between its steps.
C23_Witness ==
  /\ goroutines["g1"].pc = "returned"
  /\ goroutines["g1"].pod.spec.initContainers[1].image = ProxyImage
  /\ goroutines["g2"].pc = "init loop"
  /\ goroutines["g2"].proxyContainer.image = "custom-proxy:v2"
  /\ goroutines["g2"].in # goroutines["g1"].in

====
